---- MODULE Spec2Model ----
(***************************************************************************)
(* URL routing of the "articles" application (articles/urls.py).           *)
(*                                                                         *)
(* The module-level list urlpatterns holds two path() entries:             *)
(*     path('<slug:slug>', ArticleDetailView.as_view(), 'article_detail')  *)
(*     path('',            ArticleListView.as_view(),   'article_list')    *)
(* Request threads resolve request paths against the list, entry by entry  *)
(* in declared order, and build URLs from route names (reverse).           *)
(*                                                                         *)
(* Strings are sequences of one-character strings.                         *)
(***************************************************************************)
EXTENDS Integers, Sequences, FiniteSets

VARIABLES urlpatterns, req

vars == <<urlpatterns, req>>

(***************************************************************************)
(* Bounds of the model.                                                    *)
(***************************************************************************)
\* longest request path / keyword value of the single-thread specification
MaxLen == 4
\* longest request path / keyword value of the concurrent specification
ConcMaxLen == 2

(***************************************************************************)
(* Characters.  SlugChars stands for the slug converter's class            *)
(* [-a-zA-Z0-9_] (a letter, a digit, the hyphen, the underscore); the      *)
(* other characters are outside it.                                        *)
(***************************************************************************)
SlugChars == {"a", "7", "-", "_"}

OtherChars == {"/", ".", " "}

Charset == SlugChars \cup OtherChars

ConcCharset == {"a", "-", "/", "."}

Strings(cs, n) == UNION {[1..k -> cs] : k \in 0..n}

Max(S) == CHOOSE x \in S : \A y \in S : y <= x

Min(S) == CHOOSE x \in S : \A y \in S : x <= y

(***************************************************************************)
(* Routes.  A route is the sequence of its converter parts; '<slug:slug>'  *)
(* is one part (converter slug, keyword slug), '' has no part.             *)
(***************************************************************************)
SlugRoute == << [converter |-> "slug", name |-> "slug"] >>

EmptyRoute == << >>

path(route, view, name) == [route |-> route, view |-> view, name |-> name]

\* the list as declared: detail first, list second
articles_urlpatterns ==
  << path(SlugRoute, "ArticleDetailView", "article_detail"),
     path(EmptyRoute, "ArticleListView", "article_list") >>

\* the same two entries in the other order
swapped_urlpatterns ==
  << articles_urlpatterns[2], articles_urlpatterns[1] >>

(***************************************************************************)
(* Matching one route against the rest of a path.  path() anchors the      *)
(* route at both ends; a converter part takes the longest run of its       *)
(* characters (at least one) that lets the rest of the route match.        *)
(***************************************************************************)
NoMatch == [ok |-> FALSE, kwargs |-> {}]

\* variant: the converter's class without the hyphen and the underscore
ConverterChars_word(conv) == IF conv = "slug" THEN {"a", "7"} ELSE {}

\* variant: a converter that takes any character
ConverterChars_any(conv) == IF conv = "slug" THEN Charset ELSE {}

ConverterChars(conv) == IF conv = "slug" THEN SlugChars ELSE {}

RECURSIVE RunLength(_, _)
RunLength(s, cs) ==
  IF s = << >> \/ Head(s) \notin cs THEN 0 ELSE 1 + RunLength(Tail(s), cs)

\* variant: the route is not anchored at its end
RECURSIVE match_unanchored(_, _)
match_unanchored(route, s) ==
  IF route = << >> THEN [ok |-> TRUE, kwargs |-> {}]
  ELSE LET part == Head(route)
           n    == RunLength(s, SlugChars)
           rest(k) == match_unanchored(Tail(route), SubSeq(s, k + 1, Len(s)))
           ks   == {k \in 1..n : rest(k).ok}
       IN IF ks = {} THEN NoMatch
          ELSE [ok |-> TRUE,
                kwargs |-> {<<part.name, SubSeq(s, 1, Max(ks))>>}
                             \cup rest(Max(ks)).kwargs]

\* variant: a converter part may take no character at all
RECURSIVE match_star(_, _)
match_star(route, s) ==
  IF route = << >>
  THEN IF s = << >> THEN [ok |-> TRUE, kwargs |-> {}] ELSE NoMatch
  ELSE LET part == Head(route)
           n    == RunLength(s, SlugChars)
           rest(k) == match_star(Tail(route), SubSeq(s, k + 1, Len(s)))
           ks   == {k \in 0..n : rest(k).ok}
       IN IF ks = {} THEN NoMatch
          ELSE [ok |-> TRUE,
                kwargs |-> {<<part.name, SubSeq(s, 1, Max(ks))>>}
                             \cup rest(Max(ks)).kwargs]

RECURSIVE match(_, _)
match(route, s) ==
  IF route = << >>
  THEN IF s = << >> THEN [ok |-> TRUE, kwargs |-> {}] ELSE NoMatch
  ELSE LET part == Head(route)
           n    == RunLength(s, ConverterChars(part.converter))
           rest(k) == match(Tail(route), SubSeq(s, k + 1, Len(s)))
           ks   == {k \in 1..n : rest(k).ok}
       IN IF ks = {} THEN NoMatch
          ELSE [ok |-> TRUE,
                kwargs |-> {<<part.name, SubSeq(s, 1, Max(ks))>>}
                             \cup rest(Max(ks)).kwargs]

(***************************************************************************)
(* The root of the URL space.  The articles URLconf is mounted at the      *)
(* application root, so a request path is '/' followed by the part that    *)
(* the entries of urlpatterns see.                                         *)
(***************************************************************************)
RootPrefix == << "/" >>

\* variant: a path without the root prefix is passed on whole
root_match_optional(p) ==
  IF Len(p) >= Len(RootPrefix) /\ SubSeq(p, 1, Len(RootPrefix)) = RootPrefix
  THEN [ok |-> TRUE, rest |-> SubSeq(p, Len(RootPrefix) + 1, Len(p))]
  ELSE [ok |-> TRUE, rest |-> p]

root_match(p) ==
  IF Len(p) >= Len(RootPrefix) /\ SubSeq(p, 1, Len(RootPrefix)) = RootPrefix
  THEN [ok |-> TRUE, rest |-> SubSeq(p, Len(RootPrefix) + 1, Len(p))]
  ELSE [ok |-> FALSE, rest |-> << >>]

(***************************************************************************)
(* Resolution: the entries are tried in list order, the first that         *)
(* matches gives the view, the route name and the keyword arguments.       *)
(***************************************************************************)
Resolver404 == [found |-> FALSE, view |-> "", url_name |-> "", kwargs |-> {}]

ResolverMatch(entry, kwargs) ==
  [found |-> TRUE, view |-> entry.view, url_name |-> entry.name,
   kwargs |-> kwargs]

RECURSIVE resolve_from(_, _, _)
resolve_from(table, s, i) ==
  IF i > Len(table) THEN Resolver404
  ELSE LET m == match(table[i].route, s)
       IN IF m.ok THEN ResolverMatch(table[i], m.kwargs)
          ELSE resolve_from(table, s, i + 1)

resolve(table, p) ==
  LET r == root_match(p)
  IN IF r.ok THEN resolve_from(table, r.rest, 1) ELSE Resolver404

(***************************************************************************)
(* Reverse lookup by route name and keyword arguments.                     *)
(***************************************************************************)
NoReverseMatch == [ok |-> FALSE, url |-> << >>]

Keys(kwargs) == {kv[1] : kv \in kwargs}

Value(kwargs, k) == (CHOOSE kv \in kwargs : kv[1] = k)[2]

Params(route) == {route[j].name : j \in 1..Len(route)}

\* the route with each converter part replaced by its keyword's value
RECURSIVE substitute(_, _)
substitute(route, kwargs) ==
  IF route = << >> THEN << >>
  ELSE Value(kwargs, Head(route).name) \o substitute(Tail(route), kwargs)

\* percent-encoding of the characters that are not safe in a URL path
RECURSIVE quote(_)
quote(s) ==
  IF s = << >> THEN << >>
  ELSE (IF Head(s) = " " THEN << "%", "2", "0" >> ELSE << Head(s) >>)
         \o quote(Tail(s))

escape_leading_slashes(url) ==
  IF Len(url) >= 2 /\ url[1] = "/" /\ url[2] = "/"
  THEN << "/", "%", "2", "F" >> \o SubSeq(url, 3, Len(url))
  ELSE url

\* variant: the route name is not compared
reverse_any_name(table, name, kwargs) ==
  LET fits == {i \in 1..Len(table) :
                 /\ Params(table[i].route) = Keys(kwargs)
                 /\ match(table[i].route, substitute(table[i].route, kwargs)).ok}
  IN IF fits = {} THEN NoReverseMatch
     ELSE [ok |-> TRUE,
           url |-> escape_leading_slashes(
                     quote(RootPrefix
                             \o substitute(table[Max(fits)].route, kwargs)))]

reverse(table, name, kwargs) ==
  LET fits == {i \in 1..Len(table) :
                 /\ table[i].name = name
                 /\ Params(table[i].route) = Keys(kwargs)
                 /\ match(table[i].route, substitute(table[i].route, kwargs)).ok}
  IN IF fits = {} THEN NoReverseMatch
     ELSE [ok |-> TRUE,
           url |-> escape_leading_slashes(
                     quote(RootPrefix
                             \o substitute(table[Max(fits)].route, kwargs)))]

(***************************************************************************)
(* Request threads.                                                        *)
(***************************************************************************)
MainThread == "t1"

Threads == {"t1", "t2"}

Names == {"article_detail", "article_list", "article_edit"}

KwargsOver(S) == {{}} \cup {{<<k, v>>} : k \in {"slug", "pk"}, v \in S}

NoCall == [name |-> "", kwargs |-> {}]

NoResponse == [status |-> 0, view |-> "", kwargs |-> {}]

Idle ==
  [pc |-> "idle", path |-> << >>, rest |-> << >>, i |-> 0,
   result |-> Resolver404, call |-> NoCall, url |-> NoReverseMatch,
   response |-> NoResponse]

Init ==
  /\ urlpatterns = articles_urlpatterns
  /\ req = [t \in Threads |-> Idle]

\* a request arrives with one of the paths of S: the root prefix is taken
\* off the path
StartResolve(t, S) ==
  /\ req[t].pc = "idle"
  /\ \E p \in S :
       LET r == root_match(p)
       IN req' = [req EXCEPT ![t] =
                    IF r.ok
                    THEN [Idle EXCEPT !.pc = "resolving", !.path = p,
                                      !.rest = r.rest, !.i = 1]
                    ELSE [Idle EXCEPT !.pc = "resolved", !.path = p]]
  /\ UNCHANGED urlpatterns

\* variant: after a failed entry the index advances by two
TryPattern_skip(t) ==
  /\ req[t].pc = "resolving"
  /\ req[t].i <= Len(urlpatterns)
  /\ LET entry == urlpatterns[req[t].i]
         m     == match(entry.route, req[t].rest)
     IN req' = [req EXCEPT ![t] =
                  IF m.ok
                  THEN [@ EXCEPT !.pc = "resolved",
                                 !.result = ResolverMatch(entry, m.kwargs)]
                  ELSE [@ EXCEPT !.i = @ + 2]]
  /\ UNCHANGED urlpatterns

\* variant: a failed entry is taken off the shared list instead of the
\* thread's index advancing
TryPattern_consuming(t) ==
  /\ req[t].pc = "resolving"
  /\ req[t].i <= Len(urlpatterns)
  /\ LET entry == urlpatterns[req[t].i]
         m     == match(entry.route, req[t].rest)
     IN IF m.ok
        THEN /\ req' = [req EXCEPT ![t] =
                          [@ EXCEPT !.pc = "resolved",
                                    !.result = ResolverMatch(entry, m.kwargs)]]
             /\ UNCHANGED urlpatterns
        ELSE /\ urlpatterns' = Tail(urlpatterns)
             /\ UNCHANGED req

\* the next entry of the list is tried
TryPattern(t) ==
  /\ req[t].pc = "resolving"
  /\ req[t].i <= Len(urlpatterns)
  /\ LET entry == urlpatterns[req[t].i]
         m     == match(entry.route, req[t].rest)
     IN req' = [req EXCEPT ![t] =
                  IF m.ok
                  THEN [@ EXCEPT !.pc = "resolved",
                                 !.result = ResolverMatch(entry, m.kwargs)]
                  ELSE [@ EXCEPT !.i = @ + 1]]
  /\ UNCHANGED urlpatterns

\* variant: when no entry is left the last entry is used as a fallback
Exhausted_fallback(t) ==
  /\ req[t].pc = "resolving"
  /\ req[t].i > Len(urlpatterns)
  /\ req' = [req EXCEPT ![t] =
               [@ EXCEPT !.pc = "resolved",
                         !.result = ResolverMatch(urlpatterns[Len(urlpatterns)],
                                                  {})]]
  /\ UNCHANGED urlpatterns

\* no entry is left: not found
Exhausted(t) ==
  /\ req[t].pc = "resolving"
  /\ req[t].i > Len(urlpatterns)
  /\ req' = [req EXCEPT ![t] = [@ EXCEPT !.pc = "resolved",
                                         !.result = Resolver404]]
  /\ UNCHANGED urlpatterns

\* the caller acts on the outcome: the matched view is called with the
\* keyword arguments, or the not-found outcome becomes a 404
Respond(t) ==
  /\ req[t].pc = "resolved"
  /\ req' = [req EXCEPT ![t] =
               [@ EXCEPT !.pc = "responded",
                         !.response =
                            IF req[t].result.found
                            THEN [status |-> 200, view |-> req[t].result.view,
                                  kwargs |-> req[t].result.kwargs]
                            ELSE [status |-> 404, view |-> "", kwargs |-> {}]]]
  /\ UNCHANGED urlpatterns

\* a URL is built from a route name and keyword arguments
Reverse(t, S) ==
  /\ req[t].pc = "idle"
  /\ \E name \in Names, kwargs \in KwargsOver(S) :
       req' = [req EXCEPT ![t] =
                 [Idle EXCEPT !.pc = "reversed",
                              !.call = [name |-> name, kwargs |-> kwargs],
                              !.url = reverse(urlpatterns, name, kwargs)]]
  /\ UNCHANGED urlpatterns

\* the thread is free for the next request
Return(t) ==
  /\ req[t].pc \in {"responded", "reversed"}
  /\ req' = [req EXCEPT ![t] = Idle]
  /\ UNCHANGED urlpatterns

Step(T, S) ==
  \E t \in T :
    \/ StartResolve(t, S)
    \/ TryPattern(t)
    \/ Exhausted(t)
    \/ Respond(t)
    \/ Reverse(t, S)
    \/ Return(t)

\* one request at a time
Next == Step({MainThread}, Strings(Charset, MaxLen))

Spec == Init /\ [][Next]_vars

\* concurrent requests
NextConc == Step(Threads, Strings(ConcCharset, ConcMaxLen))

SpecConc == Init /\ [][NextConc]_vars

(***************************************************************************)
(* Properties.                                                             *)
(***************************************************************************)
\* a thread whose resolution has ended
Resolved(t) == req[t].pc \in {"resolved", "responded"}

\* a well-formed slug: a non-empty run of letters, digits, hyphens and
\* underscores
WellFormedSlug(s) ==
  /\ s # << >>
  /\ \A j \in 1..Len(s) : s[j] \in {"a", "7", "-", "_"}

\* the path is '/' followed by a non-empty string
SlashNonEmpty(p) == Len(p) >= 2 /\ p[1] = "/"

DetailMatch(s) ==
  [found |-> TRUE, view |-> "ArticleDetailView", url_name |-> "article_detail",
   kwargs |-> {<<"slug", s>>}]

ListMatch ==
  [found |-> TRUE, view |-> "ArticleListView", url_name |-> "article_list",
   kwargs |-> {}]

\* entry j of the list matches the request path p
Matches(j, p) ==
  /\ Len(p) >= 1
  /\ p[1] = "/"
  /\ match(urlpatterns[j].route, Tail(p)).ok

\* C1 as stated: every path '/' followed by a non-empty string resolves to
\* article_detail with the whole remainder as the slug
C1_DetailForEveryNonEmptyRemainder ==
  \A t \in Threads :
    (Resolved(t) /\ SlashNonEmpty(req[t].path))
      => req[t].result = DetailMatch(Tail(req[t].path))

\* C1 amended: every path '/' followed by a well-formed slug resolves to
\* article_detail with the whole remainder as the slug
C1_DetailForSlugRemainder ==
  \A t \in Threads :
    (Resolved(t) /\ SlashNonEmpty(req[t].path)
       /\ WellFormedSlug(Tail(req[t].path)))
      => req[t].result = DetailMatch(Tail(req[t].path))

C1_Witness ==
  \E t \in Threads :
    /\ req[t].pc = "responded"
    /\ req[t].path = << "/", "-", "7", "_" >>
    /\ req[t].response = [status |-> 200, view |-> "ArticleDetailView",
                          kwargs |-> {<<"slug", << "-", "7", "_" >> >>}]

\* C2: the root path '/' resolves to article_list with no parameters, the
\* empty pattern matches no other path, and article_list is the outcome
\* only for the root path
C2_ListOnlyForRoot ==
  \A t \in Threads :
    /\ (Resolved(t) /\ req[t].path = << "/" >>) => req[t].result = ListMatch
    /\ (Resolved(t) /\ req[t].result.url_name = "article_list")
         => req[t].path = << "/" >>
    /\ (req[t].pc # "idle" /\ Matches(2, req[t].path))
         => req[t].path = << "/" >>

C2_Witness ==
  \E t \in Threads :
    /\ req[t].pc = "responded"
    /\ req[t].path = << "/" >>
    /\ req[t].response = [status |-> 200, view |-> "ArticleListView",
                          kwargs |-> {}]

\* C3: reverse of article_detail with a slug s is '/' followed by s, reverse
\* of article_list with no parameters is '/', and no other name or
\* parameter signature gives a URL
C3_ReverseByName ==
  \A t \in Threads :
    req[t].pc = "reversed" =>
      LET name == req[t].call.name
          kw   == req[t].call.kwargs
      IN /\ (name = "article_detail" /\ Keys(kw) = {"slug"}
               /\ WellFormedSlug(Value(kw, "slug")))
              => req[t].url = [ok |-> TRUE,
                               url |-> << "/" >> \o Value(kw, "slug")]
         /\ (name = "article_list" /\ kw = {})
              => req[t].url = [ok |-> TRUE, url |-> << "/" >>]
         /\ req[t].url.ok
              => \/ name = "article_detail" /\ Keys(kw) = {"slug"}
                 \/ name = "article_list" /\ kw = {}

C3_Witness ==
  \E t \in Threads :
    /\ req[t].pc = "reversed"
    /\ req[t].call = [name |-> "article_detail",
                      kwargs |-> {<<"slug", << "a", "-", "7" >> >>}]
    /\ req[t].url = [ok |-> TRUE, url |-> << "/", "a", "-", "7" >>]

\* C4 as stated: with the two entries swapped, every path that the declared
\* list resolves to article_detail resolves to article_list
C4_SwappedListShadowsDetail ==
  \A t \in Threads :
    (Resolved(t) /\ req[t].result.url_name = "article_detail")
      => resolve(swapped_urlpatterns, req[t].path).url_name = "article_list"

\* C4 amended: with the two entries swapped, every path that the declared
\* list resolves to article_detail still resolves to article_detail with
\* the same slug
C4_SwappedKeepsDetail ==
  \A t \in Threads :
    (Resolved(t) /\ req[t].result.url_name = "article_detail")
      => resolve(swapped_urlpatterns, req[t].path) = req[t].result

C4_Witness ==
  \E t \in Threads :
    /\ Resolved(t)
    /\ req[t].result = DetailMatch(<< "a", "7" >>)
    /\ resolve(swapped_urlpatterns, req[t].path).url_name = "article_detail"

\* C5: the entries are tried in declared order and the first that matches
\* is the outcome: every entry before the one being tried has failed, and a
\* match is the lowest-index matching entry with its extracted parameters
C5_FirstMatchWins ==
  \A t \in Threads :
    /\ req[t].pc = "resolving"
         => \A j \in 1..Len(urlpatterns) :
              j < req[t].i => ~Matches(j, req[t].path)
    /\ (Resolved(t) /\ req[t].result.found)
         => LET hits == {j \in 1..Len(urlpatterns) : Matches(j, req[t].path)}
            IN /\ hits # {}
               /\ req[t].i = Min(hits)
               /\ req[t].result.view = urlpatterns[Min(hits)].view
               /\ req[t].result.url_name = urlpatterns[Min(hits)].name
               /\ req[t].result.kwargs =
                    match(urlpatterns[Min(hits)].route,
                          Tail(req[t].path)).kwargs

C5_Witness ==
  \E t \in Threads :
    /\ Resolved(t)
    /\ req[t].result.found
    /\ req[t].i = 2

\* C6: the outcome is not-found exactly when no entry matches the path, and
\* then nothing else happens: no view is called, the response is the 404
C6_NotFoundIffNoMatch ==
  \A t \in Threads :
    /\ Resolved(t)
         => /\ req[t].result = Resolver404
                <=> ~ \E j \in 1..Len(urlpatterns) : Matches(j, req[t].path)
            /\ req[t].result.found \/ req[t].result = Resolver404
    /\ (req[t].pc = "responded" /\ ~req[t].result.found)
         => req[t].response = [status |-> 404, view |-> "", kwargs |-> {}]

C6_Witness ==
  \E t \in Threads :
    /\ req[t].pc = "responded"
    /\ req[t].path = << "/", "a", ".", "7" >>
    /\ req[t].i = 3
    /\ req[t].response.status = 404

\* C7: a path whose remainder has a character outside the slug alphabet
\* does not match the detail pattern and ends in the plain not-found, and
\* the detail view is only ever called with a well-formed slug
C7_MalformedSlugNotFound ==
  \A t \in Threads :
    /\ (Resolved(t) /\ SlashNonEmpty(req[t].path)
          /\ ~WellFormedSlug(Tail(req[t].path)))
         => /\ ~Matches(1, req[t].path)
            /\ req[t].result = Resolver404
    /\ (req[t].pc = "responded" /\ req[t].response.view = "ArticleDetailView")
         => /\ Keys(req[t].response.kwargs) = {"slug"}
            /\ \A kv \in req[t].response.kwargs : WellFormedSlug(kv[2])

C7_Witness ==
  \E t \in Threads :
    /\ req[t].pc = "responded"
    /\ req[t].path = << "/", "a", "/", "7" >>
    /\ req[t].response.status = 404

\* C8: the empty path (no leading '/') matches no entry: the outcome is
\* not-found, not article_list
C8_EmptyPathNotFound ==
  \A t \in Threads :
    (Resolved(t) /\ req[t].path = << >>)
      => /\ req[t].result = Resolver404
         /\ req[t].pc = "responded" => req[t].response.status = 404

C8_Witness ==
  \E t \in Threads :
    /\ req[t].pc = "responded"
    /\ req[t].path = << >>
    /\ req[t].response.status = 404

\* C9: whatever the threads do and however they interleave, the list keeps
\* its two entries in declared order, and each outcome is the one its own
\* path (or name and parameters) gives
C9_TableImmutableAndResultsIndependent ==
  /\ urlpatterns =
       << [route |-> << [converter |-> "slug", name |-> "slug"] >>,
           view |-> "ArticleDetailView", name |-> "article_detail"],
          [route |-> << >>, view |-> "ArticleListView",
           name |-> "article_list"] >>
  /\ \A t \in Threads :
       /\ Resolved(t)
            => req[t].result = resolve(articles_urlpatterns, req[t].path)
       /\ req[t].pc = "reversed"
            => req[t].url = reverse(articles_urlpatterns, req[t].call.name,
                                    req[t].call.kwargs)

C9_Witness ==
  \E t, u \in Threads :
    /\ t # u
    /\ req[t].pc = "resolved"
    /\ req[t].result.url_name = "article_detail"
    /\ req[u].pc = "resolved"
    /\ req[u].result.url_name = "article_list"

\* C10: no path matches both patterns, so the outcome is the same whichever
\* of the two entries is declared first
C10_PatternsDisjoint ==
  \A t \in Threads :
    /\ req[t].pc # "idle"
         => ~(Matches(1, req[t].path) /\ Matches(2, req[t].path))
    /\ Resolved(t)
         => resolve(swapped_urlpatterns, req[t].path) = req[t].result

C10_Witness ==
  \E t \in Threads :
    /\ Resolved(t)
    /\ req[t].path = << "/" >>
    /\ req[t].result = ListMatch
    /\ resolve(swapped_urlpatterns, req[t].path) = ListMatch

====
